---- MODULE Spec2Model ----
(***************************************************************************)
(* Model of the local console relay of pvecli: src/vnc/server.py           *)
(* (VNCProxyServer), its background entry point src/vnc/__main__.py and    *)
(* the launch paths in src/cli/vm.py, src/cli/node.py and                  *)
(* src/cli/_shared.py.                                                     *)
(*                                                                         *)
(* Strings are sequences of atoms; the atoms of a ticket or a password are *)
(* single characters.                                                      *)
(*                                                                         *)
(* Time is counted in ticks, TicksPerSecond ticks to the second.  The      *)
(* monitor's asyncio.sleep(1) lasts exactly POLL_INTERVAL seconds.         *)
(***************************************************************************)
EXTENDS Integers, Sequences, FiniteSets, TLC

\* ---- bounds of the model ----
NumSessions == 2
RelaySessions == 1
MaxTime == 3
TicksPerSecond == 2
MaxFrames == 2
MaxSegs == 3
MaxStrLen == 2
MaxHeaders == 2

\* ---- program constants ----
DISCONNECT_GRACE == 5
POLL_INTERVAL == 1

Sessions == 1..NumSessions
\* the connections that carry frames in the relay specification
Relayed == Sessions \cap 1..RelaySessions
Frames == 1..MaxFrames
Grace == DISCONNECT_GRACE * TicksPerSecond
Poll == POLL_INTERVAL * TicksPerSecond

VARIABLES
    server_config,       \* keyword map the relay is constructed from
    argv,                \* sys.argv[1] of the background entry point
    relay,               \* the constructed VNCProxyServer (self.*)
    browser_url,         \* the URL handed to open_browser_window
    verify_ssl,          \* self.verify_ssl
    launch_kind,         \* "foreground" | "background" | "entry"
    launch_pc,           \* position of the launching CLI command
    browser_opened,      \* open_browser_window has been called
    port_taken,          \* another process holds local_port
    run_pc,              \* position of VNCProxyServer.run
    interactive,         \* the argument of run
    stdin_task,          \* the line-read future of interactive mode
    stdin_thread,        \* the executor thread running sys.stdin.readline
    wake_at,             \* when the monitor's sleep(1) ends
    exit_by,             \* which path left the wait loop
    now,                 \* time.monotonic(), in ticks
    active_connections,  \* self._active_connections
    ever_connected,      \* self._ever_connected
    last_disconnect,     \* self._last_disconnect
    sess,                \* one record per inbound connection
    zero_since,          \* history: when the active count last dropped to zero
    reconnected,         \* history: a session was accepted in Idle-after-use
    request,             \* request target handed to process_request
    upgrade_headers,     \* the request carries the WebSocket upgrade headers
    response             \* what process_request returned

vars == <<server_config, argv, relay, browser_url, verify_ssl, launch_kind, launch_pc, browser_opened,
          port_taken, run_pc, interactive, stdin_task, stdin_thread, wake_at,
          exit_by, now,
          active_connections, ever_connected, last_disconnect, sess,
          zero_since, reconnected, request, upgrade_headers, response>>

launchVars == <<server_config, argv, relay, browser_url, verify_ssl,
                launch_kind, launch_pc, browser_opened, port_taken>>
runVars == <<run_pc, interactive, stdin_task, stdin_thread, wake_at, exit_by>>
connVars == <<active_connections, ever_connected, last_disconnect,
              zero_since, reconnected>>
httpVars == <<request, upgrade_headers, response>>

\* ---- construction ----

\* def __init__(..., verify_ssl: bool = False, ...): self.verify_ssl = verify_ssl
init_verify_ssl(config) ==
    IF "verify_ssl" \in DOMAIN config THEN config.verify_ssl ELSE FALSE

\* ssl.SSLContext(ssl.PROTOCOL_TLS_CLIENT) and the two assignments under
\* `if not self.verify_ssl`
ssl_ctx(verify) ==
    IF ~verify
    THEN [check_hostname |-> FALSE, verify_mode |-> "CERT_NONE"]
    ELSE [check_hostname |-> TRUE, verify_mode |-> "CERT_REQUIRED"]

NoSslCtx == [check_hostname |-> FALSE, verify_mode |-> "unset"]

\* ---- strings ----

\* the characters tickets and passwords are made of: one unreserved
\* character and five that are reserved in a URL
Chars == {"a", "&", "=", "/", "%", "+"}

RECURSIVE StrsOfLen(_)
StrsOfLen(n) ==
    IF n = 0 THEN {<<>>}
    ELSE {Append(str, c) : str \in StrsOfLen(n - 1), c \in Chars}

Strs == UNION {StrsOfLen(n) : n \in 0..MaxStrLen}

\* urllib.parse.quote: the escape "%XX" of one character; letters, digits
\* and "_.-~" have none
Escape == [c \in {"&", "=", "/", "%", "+", ":"} |->
              CASE c = "&" -> "%26"
                [] c = "=" -> "%3D"
                [] c = "/" -> "%2F"
                [] c = "%" -> "%25"
                [] c = "+" -> "%2B"
                [] c = ":" -> "%3A"]

\* quote with its default argument safe='/'
quote_default_safe(str) ==
    [i \in 1..Len(str) |->
        IF str[i] \in DOMAIN Escape \ {"/"} THEN Escape[str[i]] ELSE str[i]]

\* quote(str, safe='')
quote(str) ==
    [i \in 1..Len(str) |->
        IF str[i] \in DOMAIN Escape THEN Escape[str[i]] ELSE str[i]]

DigitChars == <<"0", "1", "2", "3", "4", "5", "6", "7", "8", "9">>

\* f"{n}" for a non-negative int
RECURSIVE FormatInt(_)
FormatInt(n) ==
    IF n < 10 THEN <<DigitChars[n + 1]>>
    ELSE Append(FormatInt(n \div 10), DigitChars[(n % 10) + 1])

\* ---- construction parameters ----

\* Python's None and a str value of an optional parameter
None == [type |-> "NoneType"]
PyStr(str) == [type |-> "str", value |-> str]

\* the truth value of an optional str: None and "" are false
Truthy(x) == x.type = "str" /\ x.value # <<>>

\* header names in the casings a caller can use
HeaderNames == {"Cookie", "cookie", "COOKIE",
                "Authorization", "authorization", "AUTHORIZATION",
                "CSRFPreventionToken", "csrfpreventiontoken", "Accept"}

\* str.lower on the header names
lower(key) ==
    CASE key \in {"Cookie", "cookie", "COOKIE"} -> "cookie"
      [] key \in {"Authorization", "authorization", "AUTHORIZATION"}
             -> "authorization"
      [] key \in {"CSRFPreventionToken", "csrfpreventiontoken"}
             -> "csrfpreventiontoken"
      [] key = "Accept" -> "accept"

HeaderValue(key) == <<"value-of-", key>>

\* header maps with at most MaxHeaders entries
HeaderMaps ==
    {[key \in names |-> HeaderValue(key)] :
        names \in {S \in SUBSET HeaderNames : Cardinality(S) <= MaxHeaders}}

\* authenticate_with_password: the session cookie and the CSRF token
PasswordAuthHeaders ==
    [key \in {"Cookie", "CSRFPreventionToken"} |-> HeaderValue(key)]

\* get_token_headers: the API token
TokenAuthHeaders == [key \in {"Authorization"} |-> HeaderValue(key)]

BaseTicket == <<"PVEVNC", ":", "t">>

\* the keyword map of vm_vnc, with vnc_password: vnc_data.get("password")
vm_vnc(ticket, password, headers, verify) ==
    [proxmox_host |-> <<"pve">>,
     proxmox_port |-> 8006,
     ws_path |-> <<"/api2/json/nodes/n/qemu/100/vncwebsocket">>,
     vncticket |-> ticket,
     pve_port |-> 5900,
     auth_headers |-> headers,
     local_port |-> 6080,
     verify_ssl |-> verify,
     vnc_password |-> password]

\* the keyword map of node_vnc: "vnc_password": vnc_data["ticket"]
node_vnc(ticket, headers, verify) ==
    [vm_vnc(ticket, PyStr(ticket), headers, verify)
        EXCEPT !.ws_path = <<"/api2/json/nodes/n/vncwebsocket">>]

\* the keyword map of shared_vnc:
\* vnc_data.get("password") if generate_password else vnc_data["ticket"]
shared_vnc(ticket, password, generate_password, headers, verify) ==
    vm_vnc(ticket, IF generate_password THEN password ELSE PyStr(ticket),
           headers, verify)

\* the keyword map of a password-authenticated profile that verifies
\* certificates
ProfileConfig == vm_vnc(BaseTicket, None, PasswordAuthHeaders, TRUE)

\* The keyword maps of the launch paths always carry verify_ssl (taken from
\* the profile); the background entry point accepts any JSON object.
LaunchConfigs ==
    {vm_vnc(BaseTicket, None, PasswordAuthHeaders, v) : v \in BOOLEAN}
EntryConfigs ==
    LaunchConfigs \cup
    {[k \in DOMAIN ProfileConfig \ {"verify_ssl", "vnc_password"}
         |-> ProfileConfig[k]]}

\* the keyword maps of all launch paths over the bounded tickets, passwords
\* and header maps
PathConfigs ==
    {vm_vnc(t, None, PasswordAuthHeaders, TRUE) : t \in Strs}
    \cup {node_vnc(t, TokenAuthHeaders, TRUE) : t \in Strs}
    \cup {shared_vnc(t, None, FALSE, PasswordAuthHeaders, TRUE) : t \in Strs}
    \cup {vm_vnc(BaseTicket, PyStr(p), PasswordAuthHeaders, TRUE) : p \in Strs}
    \cup {vm_vnc(BaseTicket, None, h, TRUE) : h \in HeaderMaps}

\* ---- the JSON form of a keyword map ----

\* the str(x) of None, which is not its JSON form
dumps_optional_str(x) ==
    IF x.type = "NoneType" THEN [json |-> "string", chars |-> <<"None">>]
    ELSE [json |-> "string", chars |-> x.value]

\* json.dumps of an optional str
dumps_optional(x) ==
    IF x.type = "NoneType" THEN [json |-> "null"]
    ELSE [json |-> "string", chars |-> x.value]

\* json.dumps(server_config), one JSON value per key
json_dumps(config) ==
    [k \in DOMAIN config |->
        CASE k \in {"proxmox_host", "ws_path", "vncticket"} ->
                 [json |-> "string", chars |-> config[k]]
          [] k \in {"proxmox_port", "pve_port", "local_port"} ->
                 [json |-> "number", digits |-> FormatInt(config[k])]
          [] k = "verify_ssl" ->
                 [json |-> IF config[k] THEN "true" ELSE "false"]
          [] k = "vnc_password" -> dumps_optional(config[k])
          [] k = "auth_headers" ->
                 [json |-> "object",
                  members |-> [h \in DOMAIN config[k] |->
                                  [json |-> "string", chars |-> config[k][h]]]]]

DigitValue(c) == CHOOSE d \in 0..9 : DigitChars[d + 1] = c

RECURSIVE ParseInt(_)
ParseInt(digits) ==
    IF Len(digits) = 1 THEN DigitValue(digits[1])
    ELSE 10 * ParseInt(SubSeq(digits, 1, Len(digits) - 1))
         + DigitValue(digits[Len(digits)])

\* json.loads of one value; a str under the key of an optional parameter
\* stays a str, null becomes None
json_value(k, v) ==
    CASE v.json = "string" ->
             IF k = "vnc_password" THEN PyStr(v.chars) ELSE v.chars
      [] v.json = "number" -> ParseInt(v.digits)
      [] v.json = "true" -> TRUE
      [] v.json = "false" -> FALSE
      [] v.json = "null" -> None
      [] v.json = "object" ->
             [h \in DOMAIN v.members |-> v.members[h].chars]

\* json.loads(sys.argv[1])
json_loads(text) == [k \in DOMAIN text |-> json_value(k, text[k])]

\* ---- the relay object ----

\* a header filter that compares names as written
filter_headers_cased(auth_headers) ==
    [key \in {k \in DOMAIN auth_headers : k \in {"Cookie", "Authorization"}}
        |-> auth_headers[key]]

\* a header filter that only drops the CSRF token
filter_headers_denylist(auth_headers) ==
    [key \in {k \in DOMAIN auth_headers : lower(k) # "csrfpreventiontoken"}
        |-> auth_headers[key]]

\* for key, value in auth_headers.items():
\*     if key.lower() in ("cookie", "authorization"): self.ws_headers[key] = value
filter_headers(auth_headers) ==
    [key \in {k \in DOMAIN auth_headers :
                 lower(k) \in {"cookie", "authorization"}}
        |-> auth_headers[key]]

\* VNCProxyServer(**config): the assignments of __init__ other than
\* verify_ssl and the counters
VNCProxyServer(config) ==
    [proxmox_host |-> config.proxmox_host,
     proxmox_port |-> config.proxmox_port,
     ws_path |-> config.ws_path,
     vncticket |-> config.vncticket,
     pve_port |-> config.pve_port,
     local_port |-> config.local_port,
     vnc_password |-> IF "vnc_password" \in DOMAIN config
                      THEN config.vnc_password ELSE None,
     ws_headers |-> filter_headers(config.auth_headers)]

NoRelay == [constructed |-> FALSE]

\* a URL builder that appends the password whenever it is not None
password_arg_not_none(self) ==
    IF self.vnc_password.type = "str"
    THEN <<"&", "password", "=">> \o quote(self.vnc_password.value)
    ELSE <<>>

\* if self.vnc_password: url += f"&password={quote(self.vnc_password, safe='')}"
password_arg(self) ==
    IF Truthy(self.vnc_password)
    THEN <<"&", "password", "=">> \o quote(self.vnc_password.value)
    ELSE <<>>

\* get_browser_url
get_browser_url(self) ==
    <<"http://localhost:">> \o FormatInt(self.local_port)
    \o <<"/vnc.html", "?", "path", "=", "vnc-proxy", "&", "resize", "=",
         "scale", "&", "autoconnect", "=", "true">>
    \o password_arg(self)

\* target_url of _proxy_to_proxmox
target_url(self) ==
    <<"wss://">> \o self.proxmox_host \o <<":">>
    \o FormatInt(self.proxmox_port) \o self.ws_path
    \o <<"?", "port", "=">> \o FormatInt(self.pve_port)
    \o <<"&", "vncticket", "=">> \o quote(self.vncticket)

NewSession ==
    [pc |-> "none", client_ws |-> "none", proxmox_ws |-> "none",
     c2p |-> "none", p2c |-> "none", ssl |-> NoSslCtx, failed |-> FALSE,
     from_client |-> <<>>, c_read |-> 0, c2p_msg |-> <<>>, to_proxmox |-> <<>>,
     from_proxmox |-> <<>>, p_read |-> 0, p2c_msg |-> <<>>, to_client |-> <<>>,
     target_url |-> <<>>, additional_headers |-> <<>>]

EmptyRequest == <<>>
NoResponse == [status |-> 0, content_type |-> "", body |-> ""]

InitServer ==
    /\ verify_ssl = init_verify_ssl(server_config)
    /\ argv = (IF launch_kind = "entry" THEN json_dumps(server_config)
                                         ELSE <<>>)
    /\ relay = NoRelay
    /\ browser_url = <<>>
    /\ browser_opened = FALSE
    /\ port_taken = FALSE
    /\ run_pc = "none"
    /\ interactive = (launch_kind = "foreground")
    /\ stdin_task = "none"
    /\ stdin_thread = "none"
    /\ wake_at = 0
    /\ exit_by = "none"
    /\ now = 0
    /\ active_connections = 0
    /\ ever_connected = FALSE
    /\ last_disconnect = 0
    /\ sess = [s \in Sessions |-> NewSession]
    /\ zero_since = 0
    /\ reconnected = FALSE
    /\ response = NoResponse

Init ==
    /\ launch_kind \in {"foreground", "background", "entry"}
    /\ server_config \in (IF launch_kind = "entry" THEN EntryConfigs
                                                   ELSE LaunchConfigs)
    /\ launch_pc = (IF launch_kind = "entry" THEN "spawned" ELSE "start")
    /\ request = EmptyRequest
    /\ upgrade_headers = FALSE
    /\ InitServer

\* ---- launch paths ----

\* "local_port": find_free_port() -- binds port 0, reads the number, closes
FindFreePort ==
    /\ launch_pc = "start"
    /\ launch_pc' = "port_chosen"
    /\ UNCHANGED <<server_config, argv, relay, browser_url, verify_ssl,
                   launch_kind, browser_opened,
                   port_taken, runVars, now, connVars, sess, httpVars>>

\* another process binds the port while nobody holds it
PortStolen ==
    /\ launch_pc \in {"port_chosen", "browser_opened", "spawned"}
    /\ launch_kind # "entry"
    /\ run_pc = "none"
    /\ ~port_taken
    /\ port_taken' = TRUE
    /\ UNCHANGED <<server_config, argv, relay, browser_url, verify_ssl,
                   launch_kind, launch_pc,
                   browser_opened, runVars, now, connVars, sess, httpVars>>

\* server = VNCProxyServer(**server_config); url = server.get_browser_url();
\* open_browser_window(url)
OpenBrowser ==
    /\ launch_pc = "port_chosen"
    /\ launch_pc' = "browser_opened"
    /\ browser_opened' = TRUE
    /\ relay' = VNCProxyServer(server_config)
    /\ browser_url' = get_browser_url(relay')
    /\ UNCHANGED <<server_config, argv, verify_ssl, launch_kind, port_taken,
                   runVars, now, connVars, sess, httpVars>>

\* subprocess.Popen([sys.executable, "-m", "src.vnc", json.dumps(server_config)])
Spawn ==
    /\ launch_pc = "browser_opened"
    /\ launch_kind = "background"
    /\ launch_pc' = "spawned"
    /\ argv' = json_dumps(server_config)
    /\ UNCHANGED <<server_config, relay, browser_url, verify_ssl,
                   launch_kind, browser_opened,
                   port_taken, runVars, now, connVars, sess, httpVars>>

\* The background entry point first builds its relay:
\* config = json.loads(sys.argv[1]); server = VNCProxyServer(**config).
\* run(): `async with serve(...)` binds localhost:local_port or raises
Run ==
    /\ run_pc = "none"
    /\ \/ launch_pc = "browser_opened" /\ launch_kind = "foreground"
       \/ launch_pc = "spawned"
    /\ launch_pc' = "running"
    /\ IF port_taken
       THEN /\ run_pc' = "bind_failed"
            /\ UNCHANGED <<stdin_task, stdin_thread, wake_at>>
       ELSE /\ run_pc' = "serving"
            /\ stdin_task' = (IF interactive THEN "pending" ELSE "none")
            /\ stdin_thread' = (IF interactive THEN "blocked" ELSE "none")
            /\ wake_at' = now + Poll
    /\ IF launch_kind = "foreground"
       THEN UNCHANGED <<relay, verify_ssl>>
       ELSE /\ relay' = VNCProxyServer(json_loads(argv))
            /\ verify_ssl' = init_verify_ssl(json_loads(argv))
    /\ UNCHANGED <<server_config, argv, browser_url, launch_kind,
                   browser_opened,
                   port_taken, interactive, exit_by, now, connVars, sess,
                   httpVars>>

\* ---- idle-shutdown monitor ----

\* the idle check without its grace period
IdleExpired_nograce ==
    /\ ever_connected
    /\ active_connections = 0

\* the idle check without the ever-connected flag
IdleExpired_noever ==
    /\ active_connections = 0
    /\ now - last_disconnect >= Grace

\* the idle check with a strict comparison
IdleExpired_strict ==
    /\ ever_connected
    /\ active_connections = 0
    /\ now - last_disconnect > Grace

\* if self._ever_connected and self._active_connections == 0:
\*     idle = time.monotonic() - self._last_disconnect
\*     if idle >= self.DISCONNECT_GRACE: break
IdleExpired ==
    /\ ever_connected
    /\ active_connections = 0
    /\ now - last_disconnect >= Grace

\* a wait loop that never looks at the line-read
stdin_done_ignored == FALSE

\* the loop condition of interactive mode: stdin_task.done()
stdin_done == interactive /\ stdin_task = "done"

\* leaving `async with serve(...)`: the listener closes and every open
\* browser-facing connection is closed
server_close(ss) ==
    [s \in Sessions |->
        IF ss[s].client_ws = "open" THEN [ss[s] EXCEPT !.client_ws = "closed"]
                                    ELSE ss[s]]

\* one round of the wait loop of run(): the sleep(1) ends, then the idle
\* check, then (interactive) the loop condition `not stdin_task.done()`.
\* After the loop stdin_task.cancel() cancels the future; the executor thread
\* is already running readline and is not interrupted by it.
MonitorPoll ==
    /\ run_pc = "serving"
    /\ now = wake_at
    /\ IF IdleExpired
       THEN /\ run_pc' = "exited"
            /\ exit_by' = "idle"
            /\ stdin_task' = (IF stdin_task = "pending" THEN "cancelled"
                                                        ELSE stdin_task)
            /\ sess' = server_close(sess)
            /\ UNCHANGED wake_at
       ELSE IF stdin_done
       THEN /\ run_pc' = "exited"
            /\ exit_by' = "stdin"
            /\ sess' = server_close(sess)
            /\ UNCHANGED <<stdin_task, wake_at>>
       ELSE /\ wake_at' = now + Poll
            /\ UNCHANGED <<run_pc, exit_by, stdin_task, sess>>
    /\ UNCHANGED <<launchVars, interactive, stdin_thread, now, connVars,
                   httpVars>>

\* the operator presses Enter: sys.stdin.readline returns in its thread
OperatorEnter ==
    /\ run_pc \in {"serving", "exited"}
    /\ stdin_thread = "blocked"
    /\ stdin_thread' = "returned"
    /\ stdin_task' = (IF stdin_task = "pending" THEN "done" ELSE stdin_task)
    /\ UNCHANGED <<launchVars, run_pc, interactive, wake_at, exit_by, now,
                   connVars, sess, httpVars>>

\* run() has returned: asyncio.run(...) closes the loop, which shuts the
\* default executor down and joins its thread; only then does the call return
LoopClose ==
    /\ run_pc = "exited"
    /\ stdin_thread # "blocked"
    /\ run_pc' = "closed"
    /\ UNCHANGED <<launchVars, interactive, stdin_task, stdin_thread, wake_at,
                   exit_by, now, connVars, sess, httpVars>>

ExitPending ==
    \/ ever_connected /\ active_connections = 0
    \/ stdin_task = "done"

\* a second passes while the relay serves; the monitor wakes exactly when its
\* sleep ends.  Sessions run within MaxTime; a relay that was never used is
\* watched for a further grace period and poll, an idle one until it exits.
Tick ==
    /\ run_pc = "serving"
    /\ now < wake_at
    /\ \/ now < MaxTime
       \/ ExitPending
       \/ ~ever_connected /\ now < MaxTime + Grace + Poll
    /\ now' = now + 1
    /\ UNCHANGED <<launchVars, runVars, connVars, sess, httpVars>>

\* ---- relay sessions ----

InHandler(s) == sess[s].pc \in {"handshake", "relay", "closing"}

FramesSent == LET RECURSIVE Sum(_)
                  Sum(S) == IF S = {} THEN 0
                            ELSE LET s == CHOOSE x \in S : TRUE
                                 IN Len(sess[s].from_client) + Sum(S \ {s})
              IN Sum(Sessions)

\* a finally block that forgets the timestamp
handler_finally_noclock ==
    /\ active_connections' = active_connections - 1
    /\ zero_since' = (IF active_connections - 1 = 0 THEN now ELSE zero_since)
    /\ UNCHANGED <<last_disconnect, ever_connected, reconnected>>

\* a finally block that clears the counter instead of lowering it
handler_finally_reset ==
    /\ active_connections' = 0
    /\ last_disconnect' = now
    /\ zero_since' = now
    /\ UNCHANGED <<ever_connected, reconnected>>

\* a finally block that keeps the timestamp of the first disconnect
handler_finally_firststamp ==
    /\ active_connections' = active_connections - 1
    /\ last_disconnect' = (IF last_disconnect = 0 THEN now ELSE last_disconnect)
    /\ zero_since' = (IF active_connections - 1 = 0 THEN now ELSE zero_since)
    /\ UNCHANGED <<ever_connected, reconnected>>

\* finally: self._active_connections -= 1; self._last_disconnect = time.monotonic()
handler_finally ==
    /\ active_connections' = active_connections - 1
    /\ last_disconnect' = now
    /\ zero_since' = (IF active_connections - 1 = 0 THEN now ELSE zero_since)
    /\ UNCHANGED <<ever_connected, reconnected>>

\* an accept that hands its header map over and keeps none for the next session
Accept_consume(s) ==
    /\ run_pc = "serving"
    /\ sess[s].pc = "none"
    /\ \A t \in Sessions : t < s => sess[t].pc # "none"
    /\ now <= MaxTime
    /\ active_connections' = active_connections + 1
    /\ ever_connected' = TRUE
    /\ reconnected' = (reconnected \/ (ever_connected /\ active_connections = 0))
    /\ sess' = [sess EXCEPT ![s].pc = "handshake",
                            ![s].client_ws = "open",
                            ![s].ssl = ssl_ctx(verify_ssl),
                            ![s].target_url = target_url(relay),
                            ![s].additional_headers = relay.ws_headers]
    /\ relay' = [relay EXCEPT !.ws_headers = <<>>]
    /\ UNCHANGED <<server_config, argv, browser_url, verify_ssl, launch_kind,
                   launch_pc, browser_opened, port_taken, runVars, now,
                   last_disconnect, zero_since, httpVars>>

\* an accept that creates the two pump tasks before the outbound connect
Accept_eager(s) ==
    /\ run_pc = "serving"
    /\ sess[s].pc = "none"
    /\ \A t \in Sessions : t < s => sess[t].pc # "none"
    /\ now <= MaxTime
    /\ active_connections' = active_connections + 1
    /\ ever_connected' = TRUE
    /\ reconnected' = (reconnected \/ (ever_connected /\ active_connections = 0))
    /\ sess' = [sess EXCEPT ![s].pc = "handshake",
                            ![s].client_ws = "open",
                            ![s].ssl = ssl_ctx(verify_ssl),
                            ![s].target_url = target_url(relay),
                            ![s].additional_headers = relay.ws_headers,
                            ![s].c2p = "recv",
                            ![s].p2c = "recv"]
    /\ UNCHANGED <<launchVars, runVars, now, last_disconnect, zero_since,
                   httpVars>>

\* an accept that counts the session but leaves the used flag alone
Accept_noever(s) ==
    /\ run_pc = "serving"
    /\ sess[s].pc = "none"
    /\ \A t \in Sessions : t < s => sess[t].pc # "none"
    /\ now <= MaxTime
    /\ active_connections' = active_connections + 1
    /\ reconnected' = (reconnected \/ (ever_connected /\ active_connections = 0))
    /\ sess' = [sess EXCEPT ![s].pc = "handshake",
                            ![s].client_ws = "open",
                            ![s].ssl = ssl_ctx(verify_ssl),
                            ![s].target_url = target_url(relay),
                            ![s].additional_headers = relay.ws_headers]
    /\ UNCHANGED <<launchVars, runVars, now, ever_connected, last_disconnect,
                   zero_since, httpVars>>

\* handle_vnc_proxy is entered for an accepted upgrade: the two counter
\* updates, then _proxy_to_proxmox up to its first await (connect).
\* Connections are interchangeable: they are numbered in the order of arrival.
Accept(s) ==
    /\ run_pc = "serving"
    /\ sess[s].pc = "none"
    /\ \A t \in Sessions : t < s => sess[t].pc # "none"
    /\ now <= MaxTime
    /\ active_connections' = active_connections + 1
    /\ ever_connected' = TRUE
    /\ reconnected' = (reconnected \/ (ever_connected /\ active_connections = 0))
    /\ sess' = [sess EXCEPT ![s].pc = "handshake",
                            ![s].client_ws = "open",
                            ![s].ssl = ssl_ctx(verify_ssl),
                            ![s].target_url = target_url(relay),
                            ![s].additional_headers = relay.ws_headers]
    /\ UNCHANGED <<launchVars, runVars, now, last_disconnect, zero_since,
                   httpVars>>

\* a failed outbound handshake that is not counted as use: the flag is set
\* only by sessions that reached the remote host, and no timestamp is taken
HandshakeFail_unused(s) ==
    /\ sess[s].pc = "handshake"
    /\ active_connections' = active_connections - 1
    /\ ever_connected' = (\E t \in Sessions : sess[t].proxmox_ws # "none")
    /\ zero_since' = (IF active_connections - 1 = 0 THEN now ELSE zero_since)
    /\ sess' = [sess EXCEPT ![s].pc = "done",
                            ![s].failed = TRUE,
                            ![s].client_ws = "closed"]
    /\ UNCHANGED <<launchVars, runVars, now, last_disconnect, reconnected,
                   httpVars>>

\* a handler without its finally block: the failure is swallowed and the
\* counter keeps the session
HandshakeFail_nofinally(s) ==
    /\ sess[s].pc = "handshake"
    /\ sess' = [sess EXCEPT ![s].pc = "done",
                            ![s].failed = TRUE,
                            ![s].client_ws = "closed"]
    /\ UNCHANGED <<launchVars, runVars, now, connVars, httpVars>>

\* connect(...) raises: `except Exception: pass`, the finally block, and the
\* library closes the browser-facing connection when the handler returns
HandshakeFail(s) ==
    /\ sess[s].pc = "handshake"
    /\ handler_finally
    /\ sess' = [sess EXCEPT ![s].pc = "done",
                            ![s].failed = TRUE,
                            ![s].client_ws = "closed"]
    /\ UNCHANGED <<launchVars, runVars, now, httpVars>>

\* connect(...) succeeds: both pump tasks are created, the handler awaits
\* asyncio.wait(tasks, return_when=FIRST_COMPLETED)
HandshakeOk(s) ==
    /\ sess[s].pc = "handshake"
    /\ sess' = [sess EXCEPT ![s].pc = "relay",
                            ![s].proxmox_ws = "open",
                            ![s].c2p = "recv",
                            ![s].p2c = "recv"]
    /\ UNCHANGED <<launchVars, runVars, now, connVars, httpVars>>

\* the browser sends a frame; payloads are told apart by numbering them
BrowserSend(s, f) ==
    /\ InHandler(s)
    /\ sess[s].client_ws = "open"
    /\ f = FramesSent + 1
    /\ sess' = [sess EXCEPT ![s].from_client = Append(@, f)]
    /\ UNCHANGED <<launchVars, runVars, now, connVars, httpVars>>

\* the remote peer echoes the next frame it was delivered
PeerEcho(s) ==
    /\ sess[s].proxmox_ws = "open"
    /\ Len(sess[s].from_proxmox) < Len(sess[s].to_proxmox)
    /\ sess' = [sess EXCEPT ![s].from_proxmox =
                   Append(@, sess[s].to_proxmox[Len(sess[s].from_proxmox) + 1])]
    /\ UNCHANGED <<launchVars, runVars, now, connVars, httpVars>>

\* the browser goes away (close, reset)
ClientClose(s) ==
    /\ InHandler(s)
    /\ sess[s].client_ws = "open"
    /\ sess' = [sess EXCEPT ![s].client_ws = "closed"]
    /\ UNCHANGED <<launchVars, runVars, now, connVars, httpVars>>

\* the remote host goes away
PeerClose(s) ==
    /\ sess[s].proxmox_ws = "open"
    /\ sess[s].pc = "relay"
    /\ sess' = [sess EXCEPT ![s].proxmox_ws = "closed"]
    /\ UNCHANGED <<launchVars, runVars, now, connVars, httpVars>>

\* client_to_proxmox: `async for msg in client_ws` yields the next frame
\* a pump that waits while any connection is in its outbound handshake
client_to_proxmox_recv_serial(s) ==
    /\ \A t \in Sessions : sess[t].pc # "handshake"
    /\ sess[s].c2p = "recv"
    /\ sess[s].c_read < Len(sess[s].from_client)
    /\ sess' = [sess EXCEPT ![s].c2p = "send",
                            ![s].c_read = @ + 1,
                            ![s].c2p_msg = <<sess[s].from_client[sess[s].c_read + 1]>>]
    /\ UNCHANGED <<launchVars, runVars, now, connVars, httpVars>>

client_to_proxmox_recv(s) ==
    /\ sess[s].c2p = "recv"
    /\ sess[s].c_read < Len(sess[s].from_client)
    /\ sess' = [sess EXCEPT ![s].c2p = "send",
                            ![s].c_read = @ + 1,
                            ![s].c2p_msg = <<sess[s].from_client[sess[s].c_read + 1]>>]
    /\ UNCHANGED <<launchVars, runVars, now, connVars, httpVars>>

\* a send that puts the frame in front of the frames already delivered
send_to_front(delivered, msg) == <<msg>> \o delivered

\* what proxmox_ws.send(msg) leaves on the host-facing socket
send_to(delivered, msg) == Append(delivered, msg)

\* client_to_proxmox: `await proxmox_ws.send(msg)`; ConnectionClosed ends the task
client_to_proxmox_send(s) ==
    /\ sess[s].c2p = "send"
    /\ IF sess[s].proxmox_ws = "open"
       THEN sess' = [sess EXCEPT ![s].c2p = "recv",
                                 ![s].c2p_msg = <<>>,
                                 ![s].to_proxmox = send_to(@, sess[s].c2p_msg[1])]
       ELSE sess' = [sess EXCEPT ![s].c2p = "done", ![s].c2p_msg = <<>>]
    /\ UNCHANGED <<launchVars, runVars, now, connVars, httpVars>>

\* client_to_proxmox: the iteration over client_ws ends (closed connection)
client_to_proxmox_end(s) ==
    /\ sess[s].c2p = "recv"
    /\ sess[s].client_ws = "closed"
    /\ sess' = [sess EXCEPT ![s].c2p = "done"]
    /\ UNCHANGED <<launchVars, runVars, now, connVars, httpVars>>

\* proxmox_to_client: `async for msg in proxmox_ws` yields the next frame
proxmox_to_client_recv(s) ==
    /\ sess[s].p2c = "recv"
    /\ sess[s].p_read < Len(sess[s].from_proxmox)
    /\ sess' = [sess EXCEPT ![s].p2c = "send",
                            ![s].p_read = @ + 1,
                            ![s].p2c_msg = <<sess[s].from_proxmox[sess[s].p_read + 1]>>]
    /\ UNCHANGED <<launchVars, runVars, now, connVars, httpVars>>

\* proxmox_to_client: `await client_ws.send(msg)`; ConnectionClosed ends the task
proxmox_to_client_send(s) ==
    /\ sess[s].p2c = "send"
    /\ IF sess[s].client_ws = "open"
       THEN sess' = [sess EXCEPT ![s].p2c = "recv",
                                 ![s].p2c_msg = <<>>,
                                 ![s].to_client = send_to(@, sess[s].p2c_msg[1])]
       ELSE sess' = [sess EXCEPT ![s].p2c = "done", ![s].p2c_msg = <<>>]
    /\ UNCHANGED <<launchVars, runVars, now, connVars, httpVars>>

\* proxmox_to_client: the iteration over proxmox_ws ends (closed connection)
proxmox_to_client_end(s) ==
    /\ sess[s].p2c = "recv"
    /\ sess[s].proxmox_ws = "closed"
    /\ sess' = [sess EXCEPT ![s].p2c = "done"]
    /\ UNCHANGED <<launchVars, runVars, now, connVars, httpVars>>

\* the pending task is left running
cancel_pending_skipped(task) == task

\* for task in pending: task.cancel()
cancel_pending(task) == IF task = "done" THEN "done" ELSE "cancelled"

\* asyncio.wait returns on the first completed pump; the pending one is
\* cancelled; leaving `async with connect(...)` starts closing proxmox_ws
WaitReturns(s) ==
    /\ sess[s].pc = "relay"
    /\ sess[s].c2p = "done" \/ sess[s].p2c = "done"
    /\ sess' = [sess EXCEPT ![s].pc = "closing",
                            ![s].c2p = cancel_pending(@),
                            ![s].p2c = cancel_pending(@),
                            ![s].c2p_msg = <<>>,
                            ![s].p2c_msg = <<>>]
    /\ UNCHANGED <<launchVars, runVars, now, connVars, httpVars>>

\* proxmox_ws is closed, _proxy_to_proxmox returns, the finally block runs,
\* and the library closes the browser-facing connection
HandlerReturn(s) ==
    /\ sess[s].pc = "closing"
    /\ handler_finally
    /\ sess' = [sess EXCEPT ![s].pc = "done",
                            ![s].proxmox_ws = "closed",
                            ![s].client_ws = "closed"]
    /\ UNCHANGED <<launchVars, runVars, now, httpVars>>

\* ---- HTTP static file serving ----
\* A string is a sequence of atoms; an atom is one character ("/", ".") or a
\* run of characters that no operation splits ("novnc", "-old", "vnc.html").
\* "%2E" and "%2F" are the percent-encoded "." and "/".

\* NOVNC_ROOT = Path(__file__).parent / "novnc", as a list of components
NOVNC_ROOT == << <<"app">>, <<"novnc">> >>

\* the regular files of the host; a directory is a proper prefix of a file
Files ==
    { [path |-> << <<"app">>, <<"novnc">>, <<"vnc.html">> >>, body |-> "viewer"],
      [path |-> << <<"app">>, <<"novnc", "-old">>, <<"secret">> >>, body |-> "old"],
      [path |-> << <<"app">>, <<"secret">> >>, body |-> "private"] }

IsPrefix(a, b) == Len(a) <= Len(b) /\ SubSeq(b, 1, Len(a)) = a

\* str.startswith
startswith(str, prefix) == IsPrefix(prefix, str)

\* urllib.parse.unquote
unquote(str) ==
    [i \in 1..Len(str) |->
        CASE str[i] = "%2E" -> "."
          [] str[i] = "%2F" -> "/"
          [] str[i] = "%26" -> "&"
          [] str[i] = "%3D" -> "="
          [] str[i] = "%25" -> "%"
          [] str[i] = "%2B" -> "+"
          [] str[i] = "%3A" -> ":"
          [] str[i] = "vnc%2Dproxy" -> "vnc-proxy"
          [] OTHER -> str[i]]

RECURSIVE IndexOf(_, _, _)
IndexOf(str, c, i) ==
    IF i > Len(str) THEN 0
    ELSE IF str[i] = c THEN i
    ELSE IndexOf(str, c, i + 1)

\* the first position from i on that holds one of the characters cs, or 0
RECURSIVE IndexAny(_, _, _)
IndexAny(str, cs, i) ==
    IF i > Len(str) THEN 0
    ELSE IF str[i] \in cs THEN i
    ELSE IndexAny(str, cs, i + 1)

\* urlparse(request.path).path: a target starting with "//" has a netloc
\* that ends at the next "/", "?" or "#"; the path is what follows, up to
\* the query ("?") or the fragment ("#")
urlparse_path(target) ==
    LET rest == IF Len(target) >= 2 /\ target[1] = "/" /\ target[2] = "/"
                THEN LET k == IndexAny(target, {"/", "?", "#"}, 3)
                     IN IF k = 0 THEN <<>> ELSE SubSeq(target, k, Len(target))
                ELSE target
        e == IndexAny(rest, {"?", "#"}, 1)
    IN IF e = 0 THEN rest ELSE SubSeq(rest, 1, e - 1)

RECURSIVE Split(_, _)
\* str.split("/"), cur being the component read so far
Split(str, cur) ==
    IF str = <<>> THEN <<cur>>
    ELSE IF Head(str) = "/" THEN <<cur>> \o Split(Tail(str), <<>>)
    ELSE Split(Tail(str), Append(cur, Head(str)))

RECURSIVE LeadingSlashes(_)
LeadingSlashes(str) ==
    IF str # <<>> /\ Head(str) = "/" THEN 1 + LeadingSlashes(Tail(str)) ELSE 0

\* PurePosixPath(str): the root ("" relative, "/" or "//": exactly two leading
\* slashes are kept) and the components, without empty and "." components
PurePosixPath(str) ==
    LET n == LeadingSlashes(str)
        segs == Split(str, <<>>)
    IN [root |-> IF n = 0 THEN "" ELSE IF n = 2 THEN "//" ELSE "/",
        parts |-> SelectSeq(segs, LAMBDA g : g # <<>> /\ g # <<".">>)]

RECURSIVE resolve(_, _)
\* Path.resolve() of a path without symbolic links: ".." drops the last
\* component, and the root is its own parent
resolve(parts, acc) ==
    IF parts = <<>> THEN acc
    ELSE IF Head(parts) = <<".", ".">>
         THEN resolve(Tail(parts),
                      IF acc = <<>> THEN <<>> ELSE SubSeq(acc, 1, Len(acc) - 1))
         ELSE resolve(Tail(parts), Append(acc, Head(parts)))

RECURSIVE str(_)
\* str(path) of an absolute path
str(parts) ==
    IF parts = <<>> THEN <<>>
    ELSE <<"/">> \o Head(parts) \o str(Tail(parts))

path_str(parts) == IF parts = <<>> THEN <<"/">> ELSE str(parts)

IsFile(path) == \E f \in Files : f.path = path
ThroughFile(path) ==
    \E f \in Files : IsPrefix(f.path, path) /\ f.path # path
read_bytes(path) == (CHOOSE f \in Files : f.path = path).body

\* _http_error(status)
http_error(status) ==
    [status |-> status, content_type |-> "text/plain", body |-> "error"]

\* mimetypes.guess_type(str(resolved))[0] or "application/octet-stream"
guess_type(resolved) ==
    IF resolved[Len(resolved)] = <<"vnc.html">> THEN "text/html"
    ELSE "application/octet-stream"

\* the location a decoded path resolves to: (NOVNC_ROOT / relative).resolve()
resolved_path(url_path) ==
    resolve(NOVNC_ROOT \o PurePosixPath(url_path).parts, <<>>)

\* if not str(resolved).startswith(str(NOVNC_ROOT.resolve()))
within_root(resolved) ==
    startswith(path_str(resolved), path_str(resolve(NOVNC_ROOT, <<>>)))

\* a static handler that does not map "/" to the entry document
serve_static_noalias(path) ==
    LET resolved == resolved_path(path)
    IN IF PurePosixPath(path).root # "/" THEN http_error(400)
       ELSE IF ~within_root(resolved) THEN http_error(403)
       ELSE IF IsFile(resolved)
            THEN [status |-> 200, content_type |-> guess_type(resolved),
                  body |-> read_bytes(resolved)]
       ELSE IF ThroughFile(resolved) THEN http_error(500)
       ELSE http_error(404)

\* _serve_static
serve_static(path) ==
    LET url_path == IF path = <<"/">> \/ path = <<>> THEN <<"/", "vnc.html">>
                                                     ELSE path
        resolved == resolved_path(url_path)
    IN IF PurePosixPath(url_path).root # "/" THEN http_error(400)
       ELSE IF ~within_root(resolved) THEN http_error(403)
       ELSE IF IsFile(resolved)
            THEN [status |-> 200, content_type |-> guess_type(resolved),
                  body |-> read_bytes(resolved)]
       ELSE IF ThroughFile(resolved) THEN http_error(500)
       ELSE http_error(404)

Upgrade == [status |-> 101, content_type |-> "", body |-> "upgrade"]

\* process_request: None (proceed with the upgrade) or the static response
\* routing that looks at the upgrade headers as well
process_request_if_upgrade(target) ==
    LET path == unquote(urlparse_path(target))
    IN IF path = <<"/", "vnc-proxy">> /\ upgrade_headers THEN Upgrade
       ELSE serve_static(path)

\* routing on the beginning of the path
process_request_prefix(target) ==
    LET path == unquote(urlparse_path(target))
    IN IF startswith(path, <<"/", "vnc-proxy">>) THEN Upgrade
       ELSE serve_static(path)

\* parsed = urlparse(request.path); path = unquote(parsed.path)
\* if path == "/vnc-proxy": return None
\* return self._serve_static(path)
process_request(target) ==
    LET path == unquote(urlparse_path(target))
    IN IF path = <<"/", "vnc-proxy">> THEN Upgrade ELSE serve_static(path)

\* the request targets: an optional leading slash and up to MaxSegs components
RawSegs ==
    { <<".", ".">>, <<"%2E", "%2E">>, <<".", "%2E">>, <<".">>, <<>>,
      <<"novnc">>, <<"novnc", "-old">>, <<"vnc.html">>, <<"secret">>,
      <<"vnc-proxy">>, <<"vnc%2Dproxy">>,
      <<".", ".", "%2F", "novnc", "-old">> }

RECURSIVE JoinSegs(_)
JoinSegs(segs) ==
    IF segs = <<>> THEN <<>>
    ELSE IF Len(segs) = 1 THEN Head(segs)
    ELSE Head(segs) \o <<"/">> \o JoinSegs(Tail(segs))

SegLists == UNION {[1..n -> RawSegs] : n \in 0..MaxSegs}
PathTargets == {JoinSegs(l) : l \in SegLists} \cup
               {<<"/">> \o JoinSegs(l) : l \in SegLists}

\* a target of at most one component, followed by "?" and a query that is
\* itself such a target
QueryTargets ==
    LET short == {<<>>, <<"/">>} \cup RawSegs \cup {<<"/">> \o g : g \in RawSegs}
    IN {t \o <<"?">> \o q : t \in short, q \in short}

Targets == PathTargets \cup QueryTargets

\* the listener answers one HTTP request
HttpRequest ==
    /\ run_pc = "serving"
    /\ response = NoResponse
    /\ response' = process_request(request)
    /\ UNCHANGED <<launchVars, runVars, now, connVars, sess, request,
                   upgrade_headers>>

\* ---- specifications ----

SessionStep(s) ==
    \/ Accept(s)
    \/ HandshakeFail(s)
    \/ HandshakeOk(s)
    \/ ClientClose(s)
    \/ PeerClose(s)
    \/ client_to_proxmox_end(s)
    \/ proxmox_to_client_end(s)
    \/ WaitReturns(s)
    \/ HandlerReturn(s)

FrameStep(s) ==
    \/ \E f \in Frames : BrowserSend(s, f)
    \/ PeerEcho(s)
    \/ client_to_proxmox_recv(s)
    \/ client_to_proxmox_send(s)
    \/ proxmox_to_client_recv(s)
    \/ proxmox_to_client_send(s)

\* every launch path and every construction, and the sessions of the relay
Next ==
    \/ FindFreePort
    \/ PortStolen
    \/ OpenBrowser
    \/ Spawn
    \/ Run
    \/ \E s \in Sessions : SessionStep(s)

Spec == Init /\ [][Next]_vars

\* lifecycle: the CLI launch paths on a free port, the sessions, the monitor
\* and the clock
InitLife ==
    /\ launch_kind \in {"foreground", "background"}
    /\ server_config = ProfileConfig
    /\ launch_pc = "start"
    /\ request = EmptyRequest
    /\ upgrade_headers = FALSE
    /\ InitServer

NextLife ==
    \/ FindFreePort
    \/ OpenBrowser
    \/ Spawn
    \/ Run
    \/ MonitorPoll
    \/ OperatorEnter
    \/ LoopClose
    \/ Tick
    \/ \E s \in Sessions : SessionStep(s)

SpecLife == InitLife /\ [][NextLife]_vars

\* relay: a relay started by the background entry point, its sessions and the
\* frames they carry; the clock stands still.  Sessions share nothing but the
\* connection counters, so the frames are followed on the first RelaySessions
\* connections.
InitRelay ==
    /\ launch_kind = "entry"
    /\ server_config = ProfileConfig
    /\ launch_pc = "spawned"
    /\ request = EmptyRequest
    /\ upgrade_headers = FALSE
    /\ InitServer

NextRelay ==
    \/ Run
    \/ \E s \in Relayed : SessionStep(s)
    \/ \E s \in Relayed : FrameStep(s)

SpecRelay == InitRelay /\ [][NextRelay]_vars

\* static serving: a relay started by the background entry point answers one
\* request for any of the targets
InitStatic ==
    /\ launch_kind = "entry"
    /\ server_config = ProfileConfig
    /\ launch_pc = "spawned"
    /\ request \in Targets
    /\ upgrade_headers \in BOOLEAN
    /\ InitServer

\* process_request returned None: the library completes the upgrade and
\* calls the handler
UpgradeAccept(s) ==
    /\ response = Upgrade
    /\ upgrade_headers
    /\ Accept(s)

NextStatic ==
    \/ Run
    \/ HttpRequest
    \/ \E s \in Sessions : UpgradeAccept(s)

SpecStatic == InitStatic /\ [][NextStatic]_vars

\* the connection that arrives first
First == {s \in Sessions : \A t \in Sessions : s <= t}

\* the first connection carries frames while the others come and go
InitPair == InitRelay

NextPair ==
    \/ Run
    \/ \E s \in Sessions : SessionStep(s)
    \/ \E s \in First : FrameStep(s)

SpecPair == InitPair /\ [][NextPair]_vars

\* every launch path with every bounded keyword map, up to the outbound
\* handshake of the accepted connections
InitConfig ==
    /\ launch_kind \in {"foreground", "background", "entry"}
    /\ server_config \in PathConfigs
    /\ launch_pc = (IF launch_kind = "entry" THEN "spawned" ELSE "start")
    /\ request = EmptyRequest
    /\ upgrade_headers = FALSE
    /\ InitServer

NextConfig ==
    \/ FindFreePort
    \/ OpenBrowser
    \/ Spawn
    \/ Run
    \/ \E s \in Relayed : \/ Accept(s)
                          \/ HandshakeFail(s)
                          \/ HandshakeOk(s)

SpecConfig == InitConfig /\ [][NextConfig]_vars

\* ---- properties ----

\* the decoded path the static handler resolves, after the root alias
static_path(target) ==
    LET path == unquote(urlparse_path(target))
    IN IF path = <<"/">> \/ path = <<>> THEN <<"/", "vnc.html">> ELSE path

\* the location is the asset root or below it, component by component
InsideRoot(location) == IsPrefix(NOVNC_ROOT, location)

Answered == response # NoResponse /\ response # Upgrade

\* C1: every request path whose resolved location is neither the asset root
\* nor a descendant of it is answered 403 and never 200 with file contents,
\* also when the location is in a sibling directory whose name starts with
\* the name of the root directory.
C1_PathContainment ==
    (/\ Answered
     /\ response.status # 400
     /\ ~InsideRoot(resolved_path(static_path(request))))
        => response.status = 403

LiveHandlers == {t \in Sessions : InHandler(t)}

\* C2: a session whose outbound handshake failed has returned, its inbound
\* connection is closed, no pump task was started and no host-facing
\* connection exists for it, and the active count no longer includes it: the
\* count is the number of handlers still running.
C2_FailFast ==
    \A s \in Sessions :
        sess[s].failed =>
            /\ sess[s].pc = "done"
            /\ sess[s].client_ws = "closed"
            /\ sess[s].proxmox_ws = "none"
            /\ sess[s].c2p = "none" /\ sess[s].p2c = "none"
            /\ active_connections = Cardinality(LiveHandlers)

C2_Witness ==
    \E s, t \in Sessions :
        /\ sess[s].failed
        /\ sess[t].pc = "relay"
        /\ active_connections = 1

PumpStopped(task) == task \in {"done", "cancelled"}

\* C3: once the handler of a session has resumed after the first pump
\* completed, neither pump is running any more (the other one is cancelled),
\* and once the session is torn down both its sockets are closed.
C3_NoOrphanPump ==
    \A s \in Sessions :
        /\ (sess[s].pc \in {"closing", "done"} /\ ~sess[s].failed)
              => PumpStopped(sess[s].c2p) /\ PumpStopped(sess[s].p2c)
        /\ sess[s].pc = "done"
              => sess[s].client_ws = "closed" /\ sess[s].proxmox_ws # "open"

C3_Witness ==
    \E s \in Sessions :
        /\ sess[s].pc = "done"
        /\ sess[s].proxmox_ws = "closed"
        /\ sess[s].c2p = "done"
        /\ sess[s].p2c = "cancelled"
        /\ Len(sess[s].to_proxmox) > 0

Running(task) == task \in {"recv", "send"}

\* C4: in each session the frames delivered to the host are a prefix of the
\* frames the browser sent and the frames delivered to the browser are a
\* prefix of the frames the host sent, and while a pump runs every frame it
\* has read is delivered or in its hands: no frame is dropped, duplicated or
\* reordered.  With an echoing host the browser sees its own frames in order.
C4_FrameOrder ==
    \A s \in Sessions :
        /\ IsPrefix(sess[s].to_proxmox, sess[s].from_client)
        /\ IsPrefix(sess[s].to_client, sess[s].from_proxmox)
        /\ IsPrefix(sess[s].to_client, sess[s].from_client)
        /\ Running(sess[s].c2p) =>
              sess[s].to_proxmox \o sess[s].c2p_msg
                  = SubSeq(sess[s].from_client, 1, sess[s].c_read)
        /\ Running(sess[s].p2c) =>
              sess[s].to_client \o sess[s].p2c_msg
                  = SubSeq(sess[s].from_proxmox, 1, sess[s].p_read)

C4_Witness ==
    \E s \in Sessions :
        /\ sess[s].pc = "relay"
        /\ sess[s].client_ws = "open" /\ sess[s].proxmox_ws = "open"
        /\ Len(sess[s].from_client) = MaxFrames
        /\ sess[s].to_client = sess[s].from_client

Headless == ~interactive

\* C5: in headless mode the server has terminated only if a session was
\* accepted, no session is open and at least the grace period has passed
\* since the active count last dropped to zero; it is therefore alive right
\* after a closure, alive while a later session is open, and a full grace
\* period is counted from the closure of that session.
C5_IdleExitTiming ==
    (Headless /\ run_pc = "exited") =>
        /\ ever_connected
        /\ active_connections = 0
        /\ now - zero_since >= Grace

C5_Witness ==
    /\ Headless
    /\ run_pc = "exited"
    /\ reconnected
    /\ zero_since > 0

\* C6: in headless mode the server does not terminate as long as no session
\* was ever accepted, however much time passes.
C6_NeverConnectedStays ==
    (Headless /\ ~ever_connected) => run_pc # "exited"

C6_Witness ==
    /\ Headless
    /\ ~ever_connected
    /\ run_pc = "serving"
    /\ now >= Grace + Poll

\* C7: in headless mode, once a session was accepted and the active count is
\* back at zero, the server terminates at the first poll at which the time
\* since the last closure has reached the grace period: it is never still
\* running one poll interval after the grace period ended, and when it has
\* terminated less than a poll interval has passed since then.
C7_IdleDeadline ==
    (Headless /\ ever_connected /\ active_connections = 0
        /\ run_pc \in {"serving", "exited"})
            => now - zero_since < Grace + Poll

C7_Witness ==
    /\ Headless
    /\ run_pc = "exited"
    /\ exit_by = "idle"
    /\ now - zero_since > Grace

\* C8: in interactive mode the wait loop is left only when the line-read has
\* completed or the server is idle after use with the grace period elapsed,
\* and once the line-read has completed the monitor does not go back to
\* sleep: its next poll terminates the server, also with sessions open or
\* before any session.
C8_InteractiveExit ==
    [][/\ (interactive /\ run_pc = "serving" /\ run_pc' = "exited")
            => \/ stdin_task = "done"
               \/ /\ ever_connected
                  /\ active_connections = 0
                  /\ now - zero_since >= Grace
       /\ (interactive /\ run_pc = "serving" /\ stdin_task = "done")
            => wake_at' = wake_at]_vars

C8_Witness ==
    /\ interactive
    /\ run_pc = "exited"
    /\ exit_by = "stdin"
    /\ \E s \in Sessions : InHandler(s)

\* C9: in every launch path the listening socket of the relay is bound, or
\* the bind error reported, before open_browser_window is called.
C9_BindBeforeBrowser ==
    browser_opened => run_pc # "none"

\* C10: a session's outbound TLS context has hostname verification and
\* certificate validation disabled only if the configuration sets the
\* TLS-verify flag to false; without the flag the certificate is validated.
C10_SecureByDefault ==
    \A s \in Sessions :
        (sess[s].pc # "none" /\ sess[s].ssl.verify_mode = "CERT_NONE")
            => /\ "verify_ssl" \in DOMAIN server_config
               /\ server_config.verify_ssl = FALSE

\* ---- properties of the construction parameters ----

\* sub occurs in str as a contiguous run of atoms
Contains(text, sub) ==
    \E i \in 0..(Len(text) - Len(sub)) :
        SubSeq(text, i + 1, i + Len(sub)) = sub

\* the connections whose outbound handshake has been started
Dialled == {s \in Sessions : sess[s].pc # "none"}

\* C11: the password placed in the browser URL is never transmitted over the
\* outbound connection: for every keyword map of the launch paths, neither
\* the outbound handshake URL nor an outbound header contains the value of
\* vnc_password.
C11_PasswordNotSent ==
    \A s \in Dialled :
        Truthy(relay.vnc_password) =>
            /\ ~Contains(sess[s].target_url, quote(relay.vnc_password.value))
            /\ \A key \in DOMAIN sess[s].additional_headers :
                   ~Contains(sess[s].additional_headers[key],
                             relay.vnc_password.value)

Constructed == relay # NoRelay

\* the header map the caller supplied
Supplied == server_config.auth_headers

C13_FilterIdempotent ==
    Constructed =>
        /\ filter_headers(relay.ws_headers) = relay.ws_headers
        /\ VNCProxyServer([server_config EXCEPT
                              !.auth_headers = relay.ws_headers]).ws_headers
               = relay.ws_headers
        /\ (\A key \in DOMAIN Supplied :
                lower(key) \notin {"cookie", "authorization"})
               => relay.ws_headers = <<>>

C13_Witness ==
    /\ Constructed
    /\ DOMAIN Supplied = {"Accept", "CSRFPreventionToken"}
    /\ relay.ws_headers = <<>>

\* the pieces of text between the separators
RECURSIVE SplitOn(_, _)
SplitOn(text, sep) ==
    LET i == IndexOf(text, sep, 1)
    IN IF i = 0 THEN <<text>>
       ELSE <<SubSeq(text, 1, i - 1)>>
            \o SplitOn(SubSeq(text, i + 1, Len(text)), sep)

\* what precedes the "?" of a URL
url_base(url) == SubSeq(url, 1, IndexOf(url, "?", 1) - 1)

\* the name=value arguments of the query of a URL, as its receiver reads them
query_params(url) ==
    LET args == SplitOn(SubSeq(url, IndexOf(url, "?", 1) + 1, Len(url)), "&")
    IN [i \in 1..Len(args) |->
           LET eq == IndexOf(args[i], "=", 1)
           IN IF eq = 0 THEN [name |-> args[i], value |-> <<>>]
              ELSE [name |-> SubSeq(args[i], 1, eq - 1),
                    value |-> SubSeq(args[i], eq + 1, Len(args[i]))]]

\* no character that has an escape is left as it is
FullyEncoded(value) == \A i \in 1..Len(value) : value[i] \notin DOMAIN Escape

\* the browser URL is the fixed URL on local_port, with a password argument
\* that decodes to the password exactly when `present`
BrowserUrlIs(present) ==
    LET params == query_params(browser_url)
        password == server_config.vnc_password
    IN /\ url_base(browser_url) =
              <<"http://localhost:">> \o FormatInt(server_config.local_port)
              \o <<"/vnc.html">>
       /\ Len(params) = (IF present THEN 4 ELSE 3)
       /\ params[1] = [name |-> <<"path">>, value |-> <<"vnc-proxy">>]
       /\ params[2] = [name |-> <<"resize">>, value |-> <<"scale">>]
       /\ params[3] = [name |-> <<"autoconnect">>, value |-> <<"true">>]
       /\ present => /\ params[4].name = <<"password">>
                     /\ FullyEncoded(params[4].value)
                     /\ unquote(params[4].value) = password.value
       /\ ~present => ~Contains(browser_url, <<"password", "=">>)

\* C14 as stated: the password argument is there exactly when a password
\* was supplied, an empty one included.
C14_PasswordWhenSupplied ==
    browser_opened => BrowserUrlIs(server_config.vnc_password.type = "str")

\* C14: get_browser_url returns the fixed URL followed by &password= and the
\* fully percent-encoded password exactly when a non-empty password was
\* supplied; with None or an empty password the URL has no password argument.
C14_BrowserUrl ==
    browser_opened => BrowserUrlIs(Truthy(server_config.vnc_password))

C14_Witness ==
    /\ browser_opened
    /\ server_config.vnc_password = PyStr(<<"&", "=">>)
    /\ Contains(browser_url, <<"&", "password", "=", "%26", "%3D">>)

\* C19: the outbound handshake URL is wss://host:port ws_path with exactly
\* the two arguments port and vncticket, the ticket fully percent-encoded, and
\* decoding the vncticket argument gives back the ticket, for every ticket.
C19_TargetUrl ==
    \A s \in Dialled :
        LET url == sess[s].target_url
            params == query_params(url)
        IN /\ url_base(url) =
                  <<"wss://">> \o server_config.proxmox_host \o <<":">>
                  \o FormatInt(server_config.proxmox_port)
                  \o server_config.ws_path
           /\ Len(params) = 2
           /\ params[1].name = <<"port">>
           /\ ParseInt(params[1].value) = server_config.pve_port
           /\ params[2].name = <<"vncticket">>
           /\ FullyEncoded(params[2].value)
           /\ unquote(params[2].value) = server_config.vncticket

C19_Witness ==
    \E s \in Dialled :
        /\ server_config.vncticket = <<"/", "&">>
        /\ Contains(sess[s].target_url, <<"vncticket", "=", "%2F", "%26">>)

\* C20: a relay built by the background entry point from the JSON form of a
\* keyword map has the configuration, the filtered headers and the browser
\* URL of a relay built directly from the map, and a relay run without a
\* terminal never starts a line-read.
C20_JsonConstruct ==
    launch_kind # "foreground" =>
        /\ stdin_task = "none"
        /\ ~interactive
        /\ launch_pc = "running" =>
               /\ relay = VNCProxyServer(server_config)
               /\ verify_ssl = init_verify_ssl(server_config)
               /\ launch_kind = "background"
                      => get_browser_url(relay) = browser_url

C20_Witness ==
    /\ launch_kind = "background"
    /\ run_pc = "serving"
    /\ server_config.vnc_password = PyStr(<<"%", "+">>)
    /\ relay.vnc_password = PyStr(<<"%", "+">>)
    /\ argv.vnc_password = [json |-> "string", chars |-> <<"%", "+">>]

\* the path component of the request target, percent-decoded
decoded_path(target) == unquote(urlparse_path(target))

\* C15: only the path /vnc-proxy is handed to the WebSocket upgrade; a
\* request to any other path is answered by the static handler, never
\* reaches the relay handler and leaves the connection counters alone.
C15_OneProxyPath ==
    IF decoded_path(request) = <<"/", "vnc-proxy">>
    THEN response \in {NoResponse, Upgrade}
    ELSE /\ response # Upgrade
         /\ active_connections = 0
         /\ ~ever_connected
         /\ Dialled = {}

C15_Witness ==
    /\ request = <<"/", "vnc-proxy", "/", "vnc.html">>
    /\ response.status = 404
    /\ Dialled = {}

\* C16: the static handler answers every request path with one of 200, 400,
\* 403 and 404, also a path that descends through a regular file.
C16_StaticTotal ==
    Answered => response.status \in {200, 400, 403, 404}

\* the sessions whose handler returns in this step
Ending == {s \in Sessions : InHandler(s) /\ sess'[s].pc = "done"}

\* C17: however a session ends, its handler returns: the active count drops
\* by one for it and never again, the last-disconnect time is set to now, no
\* other session is touched and the listener stays as it was.
C17_SessionEndContained ==
    [][/\ \A s \in Ending :
              /\ active_connections' = active_connections - 1
              /\ last_disconnect' = now
              /\ run_pc' = run_pc
              /\ \A t \in Sessions \ {s} : sess'[t] = sess[t]
       /\ \A s \in Sessions : sess[s].pc = "done" => sess'[s].pc = "done"
       /\ active_connections' < active_connections => Ending # {}]_vars

C17_Witness ==
    /\ sess[1].pc = "done"
    /\ sess[1].failed
    /\ reconnected
    /\ sess[2].pc = "relay"
    /\ run_pc = "serving"
    /\ active_connections = 1
    /\ last_disconnect > 0

\* C18: sessions are independent: a step of one session (its end, an error,
\* the cancellation of its pump, its handshake) changes nothing of another
\* session, and a pump with a frame to read or to send can always take its
\* step, whatever the other sessions are doing.
C18_SessionsIndependent ==
    /\ [][\A s \in Sessions :
              sess'[s] # sess[s] =>
                  \A t \in Sessions \ {s} : sess'[t] = sess[t]]_vars
    /\ [](\A s \in Sessions :
              /\ (sess[s].c2p = "recv"
                  /\ sess[s].c_read < Len(sess[s].from_client))
                     => ENABLED client_to_proxmox_recv(s)
              /\ sess[s].c2p = "send" => ENABLED client_to_proxmox_send(s)
              /\ (sess[s].p2c = "recv"
                  /\ sess[s].p_read < Len(sess[s].from_proxmox))
                     => ENABLED proxmox_to_client_recv(s)
              /\ sess[s].p2c = "send" => ENABLED proxmox_to_client_send(s))

C18_Witness ==
    /\ sess[1].pc = "relay"
    /\ sess[1].to_proxmox = <<1, 2>>
    /\ sess[1].to_client = <<1>>
    /\ sess[1].p2c = "send"
    /\ sess[1].client_ws = "open"
    /\ sess[1].proxmox_ws = "open"
    /\ sess[2].pc = "done"
    /\ sess[2].failed
    /\ active_connections = 1

\* ---- properties of the static handler and of routing ----

\* C21: a request for "/" or for the empty path gets the response of a
\* request for /vnc.html: the same status, the same headers, the same body.
C21_RootAlias ==
    (Answered /\ decoded_path(request) \in {<<"/">>, <<>>})
        => response = process_request(<<"/", "vnc.html">>)

C21_Witness ==
    /\ request = <<"/">>
    /\ response = [status |-> 200, content_type |-> "text/html",
                   body |-> "viewer"]

\* C29: a request whose decoded path is /vnc-proxy goes to the WebSocket
\* handshake whatever its query, its percent-encoding and its headers, and
\* the response to any request is the response to the same target without
\* its query.
C29_RoutingByPath ==
    response # NoResponse =>
        /\ decoded_path(request) = <<"/", "vnc-proxy">> => response = Upgrade
        /\ LET q == IndexOf(request, "?", 1)
           IN q > 0 => response = process_request(SubSeq(request, 1, q - 1))

C29_Witness ==
    /\ request = <<"/", "vnc%2Dproxy", "?", "/", "secret">>
    /\ ~upgrade_headers
    /\ response = Upgrade

\* C22: the connection counter equals the number of sessions whose handler
\* has been entered and has not yet run its finally block; it is never
\* negative, and a step in which sessions leave their handlers lowers it by
\* exactly the number of sessions that left.
C22_CounterMatchesHandlers ==
    /\ active_connections = Cardinality(LiveHandlers)
    /\ active_connections >= 0

\* two sessions in their handlers at once, both about to run the finally block
C22_Witness ==
    /\ active_connections = 2
    /\ \E s, t \in Sessions : s # t /\ sess[s].pc = "closing" /\ sess[t].pc = "closing"

\* C23: the relay is in one of three states: never connected (flag false,
\* counter 0), active (flag true, counter positive) and idle after use (flag
\* true, counter 0).  It starts never connected; accepting a session leads
\* to active from any state; the end of a session that brings the counter to
\* zero leads to idle after use; no step leads back to never connected,
\* because the flag is never reset.
C23_ThreeStates ==
    /\ ~ever_connected /\ active_connections = 0
    /\ [][LET state(flag, count) ==
                  IF ~flag /\ count = 0 THEN "never"
                  ELSE IF flag /\ count > 0 THEN "active"
                  ELSE IF flag /\ count = 0 THEN "idle_after_use"
                  ELSE "other"
              before == state(ever_connected, active_connections)
              after == state(ever_connected', active_connections')
              accepted == \E s \in Sessions : sess[s].pc = "none" /\ sess'[s].pc # "none"
              ended == \E s \in Sessions : InHandler(s) /\ sess'[s].pc = "done"
          IN /\ after # "other"
             /\ accepted => after = "active"
             /\ (ended /\ active_connections' = 0) => after = "idle_after_use"
             /\ ever_connected => ever_connected'
             /\ after # before =>
                    <<before, after>> \in {<<"never", "active">>,
                                           <<"active", "idle_after_use">>,
                                           <<"idle_after_use", "active">>}]_vars

\* a relay that was used, fell idle, was used again and is idle once more
C23_Witness ==
    /\ reconnected
    /\ ever_connected
    /\ active_connections = 0

\* C24: whenever the counter is zero and a session has occurred, the recorded
\* last-disconnect timestamp is the time at which the counter last reached
\* zero, so the idle time the monitor computes from it is the time since that
\* transition, also when overlapping sessions ended at different times.
C24_StampIsLastZero ==
    (ever_connected /\ active_connections = 0) =>
        /\ last_disconnect = zero_since
        /\ IdleExpired <=> now - zero_since >= Grace

\* two sessions that overlapped have both ended, at a time after the start
C24_Witness ==
    /\ ever_connected /\ active_connections = 0
    /\ ~reconnected
    /\ \E s, t \in Sessions : s # t /\ sess[s].pc = "done" /\ sess[t].pc = "done"
    /\ last_disconnect > 0

\* C25: for each accepted upgrade, no frame is forwarded in either direction
\* before the outbound handshake has completed: while the handshake is
\* pending neither pump task exists, no frame has been read from the browser
\* and none has been delivered to either side; a pump task exists only once
\* the outbound connection has been opened.
C25_NoRelayBeforeHandshake ==
    \A s \in Sessions :
        /\ sess[s].pc = "handshake" =>
              /\ sess[s].c2p = "none" /\ sess[s].p2c = "none"
              /\ sess[s].c_read = 0 /\ sess[s].p_read = 0
              /\ sess[s].to_proxmox = <<>> /\ sess[s].to_client = <<>>
        /\ (sess[s].c2p # "none" \/ sess[s].p2c # "none") => sess[s].proxmox_ws # "none"
        /\ sess[s].failed => sess[s].to_proxmox = <<>> /\ sess[s].to_client = <<>>

\* the browser has already sent a frame while the outbound handshake is pending
C25_Witness ==
    \E s \in Sessions : sess[s].pc = "handshake" /\ sess[s].from_client # <<>>

\* C26: once the relay is constructed, no step changes its configuration
\* fields or its filtered header map (the relay the background entry point
\* builds from the serialised configuration has the same fields as the one
\* the command built); only the counter, the flag and the timestamp change,
\* and every session's outbound handshake is given the header map computed
\* from the configuration at construction.
C26_ConfigFrozen ==
    [][/\ Constructed => (relay' = relay /\ verify_ssl' = verify_ssl)
       /\ (~Constructed /\ Constructed') =>
              relay'.ws_headers = filter_headers(server_config.auth_headers)
       /\ \A s \in Sessions :
             IF sess[s].pc = "none"
             THEN sess'[s].pc # "none" =>
                      sess'[s].additional_headers = relay'.ws_headers
             ELSE sess'[s].additional_headers = sess[s].additional_headers]_vars

\* a used relay that fell idle and took a second session, with the monitor
\* running, dials with the filtered map
C26_Witness ==
    /\ reconnected
    /\ now > 0
    /\ \A s \in {1, 2} : /\ sess[s].pc # "none"
                          /\ sess[s].additional_headers = filter_headers(PasswordAuthHeaders)
    /\ filter_headers(PasswordAuthHeaders) # PasswordAuthHeaders

\* C27: an accepted upgrade whose outbound handshake fails counts as a used
\* session.  In headless mode, when every connection attempt so far has
\* failed at the outbound handshake (no relay session was ever established),
\* the flag is set, the counter is zero and the idle clock runs from the last
\* failure: the server is never still running a poll interval after the
\* grace period, and when it has terminated it did so through the idle path,
\* at least a grace period after the last failure.
C27_FailedAttemptsCount ==
    (/\ Headless
     /\ run_pc \in {"serving", "exited"}
     /\ \E s \in Sessions : sess[s].failed
     /\ \A s \in Sessions : sess[s].pc = "none" \/ sess[s].failed)
        => /\ ever_connected
           /\ active_connections = 0
           /\ last_disconnect = zero_since
           /\ now - zero_since < Grace + Poll
           /\ run_pc = "exited" => (exit_by = "idle" /\ now - zero_since >= Grace)

\* a headless server all of whose attempts failed, the last one after the
\* start, has terminated through the idle path
C27_Witness ==
    /\ Headless
    /\ run_pc = "exited"
    /\ exit_by = "idle"
    /\ \A s \in Sessions : sess[s].failed /\ sess[s].proxmox_ws = "none"
    /\ zero_since > 0

\* C28: in interactive mode, once run() has left its wait loop through the
\* idle path, the terminal line-read started in the worker thread has been
\* stopped: no read is outstanding that the loop shutdown has to wait for.
C28_ReadStopped ==
    (interactive /\ exit_by = "idle" /\ run_pc \in {"exited", "closed"})
        => stdin_thread # "blocked"

\* C30: the port chosen by find_free_port stays reserved for the relay until
\* the relay binds it: in the foreground and the background path no other
\* process holds the port between the selection and the bind, so the bind
\* does not fail because the port was taken in between.
C30_PortReserved ==
    (launch_kind \in {"foreground", "background"} /\ launch_pc # "start")
        => /\ ~port_taken
           /\ run_pc # "bind_failed"

====
